---- MODULE Spec2Model ----
(***************************************************************************)
(* Model of the LSP-fleet Sublime Text plugin (sublime-package/plugin.py): *)
(* locating the fleet-schema-gen binary and installing it from the GitHub  *)
(* releases into the package storage directory.                            *)
(*                                                                         *)
(* Strings the code inspects (tags, asset names, archive member names,     *)
(* marker contents) are sequences of tokens, so that lstrip, strip,        *)
(* startswith and endswith are computed as Python computes them.  An       *)
(* Optional value is a sequence of length 0 (None) or 1; an Optional path  *)
(* is a string, None being the string "None".                              *)
(***************************************************************************)
EXTENDS Naturals, Sequences, FiniteSets

\* ---------------------------------------------------------------- bounds
\* Longest release listing the catalog request returns.
MaxReleases == 2
\* Entry points called in one run of the editor.
MaxCalls == 2
\* Entry points called while two callers run side by side.
MaxConcCalls == 3

\* ------------------------------------------------------- program constants
BINARY_NAME == "fleet-schema-gen"

None == "None"
\* storage_path / BINARY_NAME
BINARY_PATH == "<cache>/Package Storage/LSP-fleet/fleet-schema-gen"
\* the value of the "binary_path" setting when the user has set one
CUSTOM_PATH == "/custom/fleet-schema-gen"
\* what shutil.which(BINARY_NAME) returns when the search path holds the binary
WHICH_PATH == "/search/fleet-schema-gen"
common_paths ==
  << "~/.cargo/bin/fleet-schema-gen", "/opt/homebrew/bin/fleet-schema-gen",
     "/usr/local/bin/fleet-schema-gen", "/usr/bin/fleet-schema-gen" >>
UNKNOWN == << "unknown" >>

\* ------------------------------------------------------- string helpers
RECURSIVE lstrip(_, _)
\* str.lstrip(chars): drops every leading character that is in chars
lstrip(s, chars) ==
  IF s # << >> /\ Head(s) \in chars THEN lstrip(Tail(s), chars) ELSE s

RECURSIVE rstrip(_, _)
rstrip(s, chars) ==
  IF s # << >> /\ s[Len(s)] \in chars
  THEN rstrip(SubSeq(s, 1, Len(s) - 1), chars) ELSE s

Whitespace == { " ", "\n", "\t" }
\* str.strip()
strip(s) == rstrip(lstrip(s, Whitespace), Whitespace)

\* str.startswith / str.endswith on token sequences
startswith(s, prefix) ==
  Len(s) >= Len(prefix) /\ SubSeq(s, 1, Len(prefix)) = prefix
endswith(s, suffix) ==
  Len(s) >= Len(suffix) /\ SubSeq(s, Len(s) - Len(suffix) + 1, Len(s)) = suffix

\* str.lower() on the names platform.system() / platform.machine() report
lower(s) ==
  CASE s = "Darwin" -> "darwin"
    [] s = "Linux" -> "linux"
    [] s = "LINUX" -> "linux"
    [] s = "Windows" -> "windows"
    [] s = "FreeBSD" -> "freebsd"
    [] s = "Java" -> "java"
    [] s = "ARM64" -> "arm64"
    [] s = "AMD64" -> "amd64"
    [] s = "X86_64" -> "x86_64"
    [] OTHER -> s

\* ------------------------------------------------------- the host platform
Hosts ==
  { [system |-> "Linux", machine |-> "x86_64"],
    [system |-> "FreeBSD", machine |-> "amd64"] }

\* what platform.system() and platform.machine() report across machines
PlatformSystems == { "Darwin", "darwin", "Linux", "LINUX", "Windows", "FreeBSD", "Java", "" }
PlatformMachines ==
  { "arm64", "ARM64", "aarch64", "x86_64", "X86_64", "amd64", "AMD64", "i386", "armv7l", "" }
PlatformHosts ==
  { [system |-> x, machine |-> m] : x \in PlatformSystems, m \in PlatformMachines }

\* the comparisons of lines 34-45 on the names as reported, not lowered
get_platform_suffix_as_reported(h) ==
  LET system == h.system
      machine == h.machine
  IN CASE system = "darwin" /\ machine \in { "arm64", "aarch64" } -> "darwin-arm64"
       [] system = "darwin" /\ machine \in { "x86_64", "amd64" } -> "darwin-x64"
       [] system = "linux" /\ machine \in { "x86_64", "amd64" } -> "linux-x64"
       [] system = "linux" /\ machine \in { "aarch64", "arm64" } -> "linux-arm64"
       [] system = "windows" -> "windows-x64"
       [] OTHER -> None

get_platform_suffix(h) ==
  LET system == lower(h.system)
      machine == lower(h.machine)
  IN CASE system = "darwin" /\ machine \in { "arm64", "aarch64" } -> "darwin-arm64"
       [] system = "darwin" /\ machine \in { "x86_64", "amd64" } -> "darwin-x64"
       [] system = "linux" /\ machine \in { "x86_64", "amd64" } -> "linux-x64"
       [] system = "linux" /\ machine \in { "aarch64", "arm64" } -> "linux-arm64"
       [] system = "windows" -> "windows-x64"
       [] OTHER -> None

\* ------------------------------------------------------- the release catalog
\* tag_name values the listing may carry
Tags == { << "v", "1" >>, << "2" >> }

\* the tag taken as the version, its leading "v" kept
version_of_tag(release) == release.tag_name

version_of(release) == lstrip(release.tag_name, { "v" })
Versions == { lstrip(t, { "v" }) : t \in Tags }

\* f"{BINARY_NAME}-{version}-{platform_suffix}.tar.gz"
asset_name_of(version, platform_suffix) ==
  << BINARY_NAME, "-" >> \o version \o << "-", platform_suffix, ".tar.gz" >>

Asset(name) == [name |-> name, browser_download_url |-> << "https://", name >>]

\* The asset lists a release with tag t may publish: nothing of this binary,
\* the binary for another platform only, or the binary for linux-x64 too.
AssetLists(t) ==
  LET v == lstrip(t, { "v" })
      other == Asset(<< "checksums.txt" >>)
      dar == Asset(asset_name_of(v, "darwin-arm64"))
      lin == Asset(asset_name_of(v, "linux-x64"))
  IN { << other >>, << dar >>, << other, dar, lin >> }

Releases == UNION { { [tag_name |-> t, assets |-> a] : a \in AssetLists(t) } : t \in Tags }

RECURSIVE SeqsUpTo(_, _)
SeqsUpTo(S, n) ==
  IF n = 0 THEN { << >> }
  ELSE LET shorter == SeqsUpTo(S, n - 1)
       IN shorter \cup { Append(s, x) : s \in shorter, x \in S }

\* the decoded listings: up to MaxReleases releases, none listed twice
Listings ==
  { l \in SeqsUpTo(Releases, MaxReleases) :
      \A i, j \in 1..Len(l) : i # j => l[i] # l[j] }

has_binary_asset(release) ==
  \E i \in 1..Len(release.assets) :
    startswith(release.assets[i].name, << BINARY_NAME >>)

\* the newest release, whether or not it ships the binary
newest_release(releases) ==
  IF releases = << >> THEN << >> ELSE << releases[1] >>

\* get_latest_release_info on a decoded listing: the first release with an
\* asset whose name starts with BINARY_NAME, None (<< >>) when there is none.
first_release_with_asset(releases) ==
  LET hits == { i \in 1..Len(releases) : has_binary_asset(releases[i]) }
  IN IF hits = { } THEN << >>
     ELSE << releases[CHOOSE i \in hits : \A j \in hits : i <= j] >>

\* lines 127-131: the URL of the first asset named asset_name, None (<< >>) else
find_asset_url(release, asset_name) ==
  LET hits == { i \in 1..Len(release.assets) : release.assets[i].name = asset_name }
  IN IF hits = { } THEN << >>
     ELSE << release.assets[CHOOSE i \in hits : \A j \in hits : i <= j].browser_download_url >>

\* ------------------------------------------------------- release archives
Member(name, x) == [name |-> name, x |-> x]
\* the members of the tar.gz a release asset may hold, with their exec bit
ArchiveContents ==
  { << Member(<< BINARY_NAME >>, FALSE) >>,
    << Member(<< "README" >>, FALSE), Member(<< "dist", "/", BINARY_NAME >>, TRUE) >>,
    << Member(<< "README" >>, FALSE), Member(<< "my-", BINARY_NAME >>, TRUE) >> }

\* line 160
member_matches(m) ==
  m.name = << BINARY_NAME >> \/ endswith(m.name, << "/", BINARY_NAME >>)

\* lines 159-163: the first matching member, None (<< >>) when none matches
first_matching_member(members) ==
  LET hits == { i \in 1..Len(members) : member_matches(members[i]) }
  IN IF hits = { } THEN << >>
     ELSE << members[CHOOSE i \in hits : \A j \in hits : i <= j] >>

\* ------------------------------------------------------- the local machine
\* What a path names: nothing, a directory, a regular file without or with
\* the execute permission.
isfile(kind) == kind \in { "noexec", "exec" }
access_X_OK(kind) == kind \in { "dir", "exec" }

\* What one call of get_binary_path finds outside the storage directory:
\* the "binary_path" setting and the file it names, the result of
\* shutil.which, and what sits at each of common_paths.
CommonStates ==
  { << "missing", "missing", "missing", "missing" >>,
    << "noexec", "dir", "exec", "exec" >> }

Envs ==
  [ custom : { [path |-> "", kind |-> "missing"],
               [path |-> CUSTOM_PATH, kind |-> "noexec"],
               [path |-> CUSTOM_PATH, kind |-> "dir"] },
    which : { None, WHICH_PATH },
    common : CommonStates ]

\* the environment recorded for a call that looks nowhere (install_or_update)
NoEnv ==
  [ custom |-> [path |-> "", kind |-> "missing"], which |-> None,
    common |-> << "missing", "missing", "missing", "missing" >> ]

\* lines 188-191
configured_path(e) ==
  IF e.custom.path # "" /\ isfile(e.custom.kind) THEN e.custom.path ELSE None

find_binary_in_path(e) == e.which

find_binary_in_common_paths(e) ==
  LET hits == { i \in 1..Len(common_paths) :
                  isfile(e.common[i]) /\ access_X_OK(e.common[i]) }
  IN IF hits = { } THEN None
     ELSE common_paths[CHOOSE i \in hits : \A j \in hits : i <= j]

\* the search path consulted before the configured path
local_binary_path_first(e) ==
  IF find_binary_in_path(e) # None THEN find_binary_in_path(e)
  ELSE IF configured_path(e) # None THEN configured_path(e)
  ELSE find_binary_in_common_paths(e)

\* the well-known directories left out
local_binary_no_common(e) ==
  IF configured_path(e) # None THEN configured_path(e)
  ELSE find_binary_in_path(e)

\* lines 187-201 of get_binary_path: strategies 1-3, None when all three miss
local_binary(e) ==
  IF configured_path(e) # None THEN configured_path(e)
  ELSE IF find_binary_in_path(e) # None THEN find_binary_in_path(e)
  ELSE find_binary_in_common_paths(e)

\* ------------------------------------------------------- state
Procs == { "host", "loader" }

\* the entry points: the hooks the LSP framework calls on FleetLsp, and the
\* check_installation callback plugin_loaded schedules
HostOps ==
  { "server_version", "needs_update_or_installation", "install_or_update",
    "additional_variables" }
LoaderOps == { "check_installation" }
OpsOf(p) == IF p = "host" THEN HostOps ELSE LoaderOps
\* the entry points that resolve the binary with get_binary_path
ViaGetBinaryPath == (HostOps \cup LoaderOps) \ { "install_or_update" }

VARIABLES
  host,      \* platform.system() and platform.machine() of this machine
  binary,    \* storage_path / BINARY_NAME: << >> or << [ver, exec, whole] >>
  marker,    \* storage_path / "version": << >> or << content >>
  archives,  \* archives[v]: the file storage_path / asset_name of version v
  pc,        \* where each caller stands
  op,        \* the entry point it is running
  env,       \* what its get_binary_path looked at on the local machine
  pre,       \* the storage directory when its call started
  listing,   \* the decoded releases listing it has just received
  release,   \* download_binary's release: << >> or << release >>
  failedAt,  \* the step of download_binary whose exception it is handling
  platform_suffix,  \* download_binary's platform_suffix, "" before line 106
  probe,     \* what server_version's subprocess.run gave: << >> or << run >>
  listReq,   \* requests for the releases listing it has issued in this call
  archReq,   \* requests for an archive it has issued in this call
  served,    \* the members of the archive it has downloaded: << >> or << members >>
  ret,       \* what download_binary / get_binary_path returned to it
  outcome,   \* how the entry point ended: [kind, value]
  calls      \* entry-point calls the behaviour still has

vars == << host, binary, marker, archives, pc, op, env, pre, listing, release,
           failedAt, platform_suffix, probe, listReq, archReq, served, ret, outcome,
           calls >>

NoOutcome == [kind |-> "none", value |-> << >>]
Snapshot == [binary |-> binary, marker |-> marker, archives |-> archives]

\* no caller has entered an entry point
Idle ==
  /\ pc = [p \in Procs |-> "idle"]
  /\ op = [p \in Procs |-> "none"]
  /\ env = [p \in Procs |-> NoEnv]
  /\ pre = [p \in Procs |-> Snapshot]
  /\ listing = [p \in Procs |-> << >>]
  /\ release = [p \in Procs |-> << >>]
  /\ failedAt = [p \in Procs |-> "none"]
  /\ platform_suffix = [p \in Procs |-> ""]
  /\ probe = [p \in Procs |-> << >>]
  /\ listReq = [p \in Procs |-> 0]
  /\ archReq = [p \in Procs |-> 0]
  /\ served = [p \in Procs |-> << >>]
  /\ ret = [p \in Procs |-> None]
  /\ outcome = [p \in Procs |-> NoOutcome]

\* the storage directory empty and every caller idle
Fresh ==
  /\ binary = << >>
  /\ marker = << >>
  /\ archives = [v \in Versions |-> << >>]
  /\ Idle

Init == host \in Hosts /\ Fresh /\ calls = MaxCalls

\* ------------------------------------------------------- entry points
\* A caller enters one of its entry points; a get_binary_path caller reads the
\* local machine as it is at that moment.
Call(p) ==
  /\ pc[p] = "idle"
  /\ calls > 0
  /\ calls' = calls - 1
  /\ \E o \in OpsOf(p) :
       \E e \in IF o \in ViaGetBinaryPath THEN Envs ELSE { NoEnv } :
         /\ op' = [op EXCEPT ![p] = o]
         /\ env' = [env EXCEPT ![p] = e]
         /\ pc' = [pc EXCEPT ![p] =
                     IF o \in ViaGetBinaryPath THEN "get_binary_path"
                     ELSE "download_binary"]
  /\ pre' = [pre EXCEPT ![p] = Snapshot]
  /\ listing' = [listing EXCEPT ![p] = << >>]
  /\ release' = [release EXCEPT ![p] = << >>]
  /\ failedAt' = [failedAt EXCEPT ![p] = "none"]
  /\ listReq' = [listReq EXCEPT ![p] = 0]
  /\ archReq' = [archReq EXCEPT ![p] = 0]
  /\ served' = [served EXCEPT ![p] = << >>]
  /\ ret' = [ret EXCEPT ![p] = None]
  /\ outcome' = [outcome EXCEPT ![p] = NoOutcome]
  /\ UNCHANGED << host, platform_suffix, probe, binary, marker, archives >>

\* get_binary_path, strategies 1-3 (lines 187-201); strategy 4 follows.
get_binary_path(p) ==
  /\ pc[p] = "get_binary_path"
  /\ LET path == local_binary(env[p])
     IN IF path # None
        THEN /\ ret' = [ret EXCEPT ![p] = path]
             /\ pc' = [pc EXCEPT ![p] = "return"]
        ELSE /\ pc' = [pc EXCEPT ![p] = "download_binary"]
             /\ UNCHANGED ret
  /\ UNCHANGED << calls, host, platform_suffix, probe,
                  binary, marker, archives, op, env, pre, listing, release,
                  failedAt, listReq, archReq, served, outcome >>

\* download_binary without the check of lines 107-109
download_binary_unchecked(p) ==
  /\ pc[p] = "download_binary"
  /\ platform_suffix' = [platform_suffix EXCEPT ![p] = get_platform_suffix(host)]
  /\ pc' = [pc EXCEPT ![p] = "get_latest_release_info"]
  /\ UNCHANGED << calls, host, probe, binary, marker, archives, op, env, pre, listing,
                  release, failedAt, listReq, archReq, served, ret, outcome >>

\* download_binary, lines 106-112. get_storage_path (lines 50-55) creates the
\* storage directory if it is missing; its mkdir is outside every try, so an
\* OSError from it leaves download_binary and its callers as an exception. A
\* directory that holds a file exists, and mkdir(exist_ok=True) then succeeds.
download_binary(p) ==
  /\ pc[p] = "download_binary"
  /\ platform_suffix' = [platform_suffix EXCEPT ![p] = get_platform_suffix(host)]
  /\ IF get_platform_suffix(host) = None
     THEN pc' = [pc EXCEPT ![p] = "return"] /\ UNCHANGED failedAt
     ELSE \/ pc' = [pc EXCEPT ![p] = "get_latest_release_info"] /\ UNCHANGED failedAt
          \/ /\ binary = << >> /\ marker = << >>
             /\ \A v \in Versions : archives[v] = << >>
             /\ failedAt' = [failedAt EXCEPT ![p] = "mkdir"]
             /\ pc' = [pc EXCEPT ![p] = "return"]
  /\ UNCHANGED << calls, host, probe, binary, marker, archives, op, env, pre, listing,
                  release, listReq, archReq, served, ret, outcome >>

\* get_latest_release_info (lines 80-101), called at line 115: one request
\* for the listing; any failure of the request or of decoding gives None.
get_latest_release_info(p) ==
  /\ pc[p] = "get_latest_release_info"
  /\ listReq' = [listReq EXCEPT ![p] = @ + 1]
  /\ \/ \E releases \in Listings :
          /\ listing' = [listing EXCEPT ![p] = << releases >>]
          /\ release' = [release EXCEPT ![p] = first_release_with_asset(releases)]
     \/ /\ listing' = [listing EXCEPT ![p] = << >>]
        /\ release' = [release EXCEPT ![p] = << >>]
  /\ pc' = [pc EXCEPT ![p] = "select_asset"]
  /\ UNCHANGED << calls, host, platform_suffix, probe,
                  binary, marker, archives, op, env, pre, failedAt,
                  archReq, served, ret, outcome >>

version(p) == version_of(release[p][1])
asset_name(p) == asset_name_of(version(p), platform_suffix[p])
asset_url(p) == find_asset_url(release[p][1], asset_name(p))

\* lines 116-135: no release falls back to the binary in the storage
\* directory; no asset of the expected name returns None.
select_asset(p) ==
  /\ pc[p] = "select_asset"
  /\ IF release[p] = << >>
     THEN /\ ret' = [ret EXCEPT ![p] = IF binary # << >> THEN BINARY_PATH ELSE None]
          /\ pc' = [pc EXCEPT ![p] = "return"]
     ELSE IF asset_url(p) = << >>
     THEN /\ ret' = [ret EXCEPT ![p] = None]
          /\ pc' = [pc EXCEPT ![p] = "return"]
     ELSE /\ pc' = [pc EXCEPT ![p] = "check_version"]
          /\ UNCHANGED ret
  /\ listing' = [listing EXCEPT ![p] = << >>]
  /\ UNCHANGED << calls, host, platform_suffix, probe,
                  binary, marker, archives, op, env, pre, release,
                  failedAt, listReq, archReq, served, outcome >>

\* the marker compared with the tag instead of the version
already_installed_tag(p) ==
  /\ binary # << >>
  /\ marker # << >>
  /\ strip(marker[1]) = release[p][1].tag_name

\* lines 138-142: the installed version is the release's
already_installed(p) ==
  /\ binary # << >>
  /\ marker # << >>
  /\ strip(marker[1]) = version(p)

check_version(p) ==
  /\ pc[p] = "check_version"
  /\ IF already_installed(p)
     THEN /\ ret' = [ret EXCEPT ![p] = BINARY_PATH]
          /\ pc' = [pc EXCEPT ![p] = "return"]
     ELSE /\ pc' = [pc EXCEPT ![p] = "download_archive"]
          /\ UNCHANGED ret
  /\ UNCHANGED << calls, host, platform_suffix, probe,
                  binary, marker, archives, op, env, pre, listing, release,
                  failedAt, listReq, archReq, served, outcome >>

\* an exception in the try block of lines 146-175 goes to line 177
raise(p, step) ==
  /\ failedAt' = [failedAt EXCEPT ![p] = step]
  /\ pc' = [pc EXCEPT ![p] = "fall_back"]

\* lines 147-155: one request for the archive.  urlopen may fail before the
\* file is opened; open(archive_path, "wb") truncates, so a failure of read()
\* or write() leaves a partial archive.
download_archive(p) ==
  /\ pc[p] = "download_archive"
  /\ archReq' = [archReq EXCEPT ![p] = @ + 1]
  /\ \/ /\ raise(p, "download")
        /\ UNCHANGED << archives, served >>
     \/ /\ raise(p, "download")
        /\ archives' = [archives EXCEPT ![version(p)] =
                          << [whole |-> FALSE, members |-> << >>] >>]
        /\ UNCHANGED served
     \/ /\ \E members \in ArchiveContents :
             /\ archives' = [archives EXCEPT ![version(p)] =
                               << [whole |-> TRUE, members |-> members] >>]
             /\ served' = [served EXCEPT ![p] = << members >>]
        /\ pc' = [pc EXCEPT ![p] = "extract_binary"]
        /\ UNCHANGED failedAt
  /\ UNCHANGED << calls, host, platform_suffix, probe,
                  binary, marker, op, env, pre, listing, release,
                  listReq, ret, outcome >>

\* lines 157-163: tarfile.open needs a complete archive; the first matching
\* member is written over storage_path / BINARY_NAME with the member's mode.
\* A failure while the member is being written leaves a partial file, which
\* keeps the mode of the file it overwrote.
extract_binary(p) ==
  LET a == archives[version(p)]
      m == first_matching_member(a[1].members)
  IN /\ pc[p] = "extract_binary"
     /\ IF a = << >> \/ ~a[1].whole
        THEN raise(p, "extract") /\ UNCHANGED binary
        ELSE \/ raise(p, "extract") /\ UNCHANGED binary
             \/ /\ m # << >>
                /\ raise(p, "extract")
                /\ binary' = << [ver |-> version(p), whole |-> FALSE,
                                 exec |-> IF binary # << >> THEN binary[1].exec
                                          ELSE FALSE] >>
             \/ /\ binary' = IF m = << >> THEN binary
                             ELSE << [ver |-> version(p), whole |-> TRUE,
                                      exec |-> m[1].x] >>
                /\ pc' = [pc EXCEPT ![p] = "make_executable"]
                /\ UNCHANGED failedAt
     /\ UNCHANGED << calls, host, platform_suffix, probe,
                     marker, archives, op, env, pre, listing, release,
                     listReq, archReq, served, ret, outcome >>

\* line 166: stat() raises when nothing was extracted and no binary was there
make_executable(p) ==
  /\ pc[p] = "make_executable"
  /\ IF binary = << >>
     THEN raise(p, "chmod") /\ UNCHANGED binary
     ELSE \/ raise(p, "chmod") /\ UNCHANGED binary
          \/ /\ binary' = << [binary[1] EXCEPT !.exec = TRUE] >>
             /\ pc' = [pc EXCEPT ![p] = "clean_up_archive"]
             /\ UNCHANGED failedAt
  /\ UNCHANGED << calls, host, platform_suffix, probe,
                  marker, archives, op, env, pre, listing, release,
                  listReq, archReq, served, ret, outcome >>

\* lines 169 and 172 in the other order: the marker written, then the unlink
clean_up_archive_after_marker(p) ==
  /\ pc[p] = "clean_up_archive"
  /\ marker' = << version(p) >>
  /\ IF archives[version(p)] = << >>
     THEN raise(p, "unlink") /\ UNCHANGED archives
     ELSE \/ raise(p, "unlink") /\ UNCHANGED archives
          \/ /\ archives' = [archives EXCEPT ![version(p)] = << >>]
             /\ pc' = [pc EXCEPT ![p] = "save_version"]
             /\ UNCHANGED failedAt
  /\ UNCHANGED << calls, host, platform_suffix, probe,
                  binary, op, env, pre, listing, release,
                  listReq, archReq, served, ret, outcome >>

\* line 169
clean_up_archive(p) ==
  /\ pc[p] = "clean_up_archive"
  /\ IF archives[version(p)] = << >>
     THEN raise(p, "unlink") /\ UNCHANGED archives
     ELSE \/ raise(p, "unlink") /\ UNCHANGED archives
          \/ /\ archives' = [archives EXCEPT ![version(p)] = << >>]
             /\ pc' = [pc EXCEPT ![p] = "save_version"]
             /\ UNCHANGED failedAt
  /\ UNCHANGED << calls, host, platform_suffix, probe,
                  binary, marker, op, env, pre, listing, release,
                  listReq, archReq, served, ret, outcome >>

\* lines 172-175: write_text opens the marker with "w", which truncates it,
\* so a failed write leaves it as it was or empty.
save_version(p) ==
  /\ pc[p] = "save_version"
  /\ \/ raise(p, "marker") /\ UNCHANGED << marker, ret >>
     \/ raise(p, "marker") /\ marker' = << << >> >> /\ UNCHANGED ret
     \/ /\ marker' = << version(p) >>
        /\ ret' = [ret EXCEPT ![p] = BINARY_PATH]
        /\ pc' = [pc EXCEPT ![p] = "return"]
        /\ UNCHANGED failedAt
  /\ UNCHANGED << calls, host, platform_suffix, probe,
                  binary, archives, op, env, pre, listing, release,
                  listReq, archReq, served, outcome >>

\* the handler without its fallback to the existing binary
fall_back_none(p) ==
  /\ pc[p] = "fall_back"
  /\ ret' = [ret EXCEPT ![p] = None]
  /\ pc' = [pc EXCEPT ![p] = "return"]
  /\ UNCHANGED << calls, host, platform_suffix, probe,
                  binary, marker, archives, op, env, pre, listing, release,
                  failedAt, listReq, archReq, served, outcome >>

\* lines 177-182
fall_back(p) ==
  /\ pc[p] = "fall_back"
  /\ ret' = [ret EXCEPT ![p] = IF binary # << >> THEN BINARY_PATH ELSE None]
  /\ pc' = [pc EXCEPT ![p] = "return"]
  /\ UNCHANGED << calls, host, platform_suffix, probe,
                  binary, marker, archives, op, env, pre, listing, release,
                  failedAt, listReq, archReq, served, outcome >>

\* ------------------------------------------------------- the version probe
\* What subprocess.run([binary, "--version"], timeout=5) can give for the file
\* at path: stdout is given as its whitespace-separated tokens.
Exit0(tokens) == [status |-> "exit0", stdout |-> tokens]
ProbeFailures ==
  { [status |-> "nonzero", stdout |-> << >>],
    [status |-> "nonzero", stdout |-> << << "usage:" >>, << BINARY_NAME >> >>],
    [status |-> "timeout", stdout |-> << >>], [status |-> "oserror", stdout |-> << >>] }
run_version(path) ==
  IF path = BINARY_PATH
  THEN IF binary = << >> \/ ~binary[1].exec \/ ~binary[1].whole
       THEN { [status |-> "oserror", stdout |-> << >>] }
       ELSE ProbeFailures \cup { Exit0(<< << BINARY_NAME >>, binary[1].ver >>) }
  ELSE ProbeFailures \cup { Exit0(<< >>) }
         \cup { Exit0(<< << BINARY_NAME >>, v >>) : v \in Versions }

\* lines 226-238
server_version(path, run) ==
  IF path # None /\ run.status = "exit0" /\ run.stdout # << >>
  THEN run.stdout[Len(run.stdout)]
  ELSE UNKNOWN

Returned(value) == [kind |-> "returned", value |-> value]
Raised(error) == [kind |-> "raised", value |-> << error >>]

\* The probes entry point o can have run on the path it was given: only
\* server_version runs one, and only on a path (lines 225-232).
probes(o, path) ==
  IF o = "server_version" /\ path # None
  THEN { << run >> : run \in run_version(path) }
  ELSE { << >> }

\* What the entry point o makes of the path get_binary_path / download_binary
\* returned and of its probe: lines 225-238, 243, 248-250, 260-263, 280-284.
outcome_of(o, path, pr) ==
  CASE o = "server_version" ->
         Returned(IF pr = << >> THEN UNKNOWN ELSE server_version(path, pr[1]))
    [] o = "needs_update_or_installation" ->
         Returned(<< IF path = None THEN "True" ELSE "False" >>)
    [] o = "install_or_update" ->
         IF path = None THEN Raised("RuntimeError") ELSE Returned(<< >>)
    [] o = "additional_variables" ->
         Returned(<< IF path = None THEN "" ELSE path >>)
    [] OTHER -> Returned(<< >>)

\* The entry point ends: with the exception that left download_binary, or with
\* what it makes of the path.
Return(p) ==
  /\ pc[p] = "return"
  /\ IF failedAt[p] = "mkdir"
     THEN /\ outcome' = [outcome EXCEPT ![p] = Raised("OSError")]
          /\ UNCHANGED probe
     ELSE \E pr \in probes(op[p], ret[p]) :
            /\ probe' = [probe EXCEPT ![p] = pr]
            /\ outcome' = [outcome EXCEPT ![p] = outcome_of(op[p], ret[p], pr)]
  /\ pc' = [pc EXCEPT ![p] = "done"]
  /\ UNCHANGED << calls, host, platform_suffix, binary, marker, archives, op, env, pre,
                  listing, release, failedAt, listReq, archReq, served, ret >>

\* The caller goes on; what the call left behind is the storage directory.
Ack(p) ==
  /\ pc[p] = "done"
  /\ pc' = [pc EXCEPT ![p] = "idle"]
  /\ op' = [op EXCEPT ![p] = "none"]
  /\ env' = [env EXCEPT ![p] = NoEnv]
  /\ pre' = [pre EXCEPT ![p] = Snapshot]
  /\ listing' = [listing EXCEPT ![p] = << >>]
  /\ release' = [release EXCEPT ![p] = << >>]
  /\ failedAt' = [failedAt EXCEPT ![p] = "none"]
  /\ listReq' = [listReq EXCEPT ![p] = 0]
  /\ archReq' = [archReq EXCEPT ![p] = 0]
  /\ served' = [served EXCEPT ![p] = << >>]
  /\ ret' = [ret EXCEPT ![p] = None]
  /\ outcome' = [outcome EXCEPT ![p] = NoOutcome]
  /\ platform_suffix' = [platform_suffix EXCEPT ![p] = ""]
  /\ probe' = [probe EXCEPT ![p] = << >>]
  /\ UNCHANGED << calls, host, binary, marker, archives >>

\* ------------------------------------------------------- specification
\* Provisioning is single-threaded and cooperative: a caller runs its entry
\* point to the end before another one starts.
Solo(p) == \A q \in Procs \ { p } : pc[q] = "idle"

Next ==
  \/ \E p \in Procs : Solo(p) /\ Call(p)
  \/ \E p \in Procs : Solo(p) /\ get_binary_path(p)
  \/ \E p \in Procs : Solo(p) /\ download_binary(p)
  \/ \E p \in Procs : Solo(p) /\ get_latest_release_info(p)
  \/ \E p \in Procs : Solo(p) /\ select_asset(p)
  \/ \E p \in Procs : Solo(p) /\ check_version(p)
  \/ \E p \in Procs : Solo(p) /\ download_archive(p)
  \/ \E p \in Procs : Solo(p) /\ extract_binary(p)
  \/ \E p \in Procs : Solo(p) /\ make_executable(p)
  \/ \E p \in Procs : Solo(p) /\ clean_up_archive(p)
  \/ \E p \in Procs : Solo(p) /\ save_version(p)
  \/ \E p \in Procs : Solo(p) /\ fall_back(p)
  \/ \E p \in Procs : Solo(p) /\ Return(p)
  \/ \E p \in Procs : Solo(p) /\ Ack(p)

Spec == Init /\ [][Next]_vars

\* The platform detection on its own: any machine, and the callers up to the
\* platform check of download_binary; the catalog is not reached.
InitPlatform == host \in PlatformHosts /\ Fresh /\ calls = MaxCalls

NextPlatform ==
  \/ \E p \in Procs : Solo(p) /\ Call(p)
  \/ \E p \in Procs : Solo(p) /\ get_binary_path(p)
  \/ \E p \in Procs : Solo(p) /\ download_binary(p)
  \/ \E p \in Procs : Solo(p) /\ Return(p)
  \/ \E p \in Procs : Solo(p) /\ Ack(p)

SpecPlatform == InitPlatform /\ [][NextPlatform]_vars

\* The package loaded on a machine where an earlier session installed a
\* release: the binary whole and executable, the marker its version.
InitInstalled ==
  /\ host = [system |-> "Linux", machine |-> "x86_64"]
  /\ \E v \in Versions :
       /\ binary = << [ver |-> v, whole |-> TRUE, exec |-> TRUE] >>
       /\ marker = << v >>
  /\ archives = [v \in Versions |-> << >>]
  /\ Idle
  /\ calls = MaxCalls

SpecUpdate == InitInstalled /\ [][Next]_vars

\* Two callers side by side: check_installation, started by plugin_loaded's
\* set_timeout_async, and the host's install_or_update run download_binary on
\* the same storage directory with nothing to keep one out while the other is
\* in it. The machine is supported, nothing is found locally, the listing
\* shows one release, its archive holds the binary, and no step fails on its
\* own account: a step raises only for what the other caller did to the files.
ConcListing ==
  << [tag_name |-> << "v", "1" >>,
      assets |-> << Asset(<< "checksums.txt" >>),
                    Asset(asset_name_of(<< "1" >>, "darwin-arm64")),
                    Asset(asset_name_of(<< "1" >>, "linux-x64")) >>] >>
ConcArchive == << Member(<< BINARY_NAME >>, FALSE) >>

InitConc ==
  /\ host = [system |-> "Linux", machine |-> "x86_64"]
  /\ Fresh
  /\ calls = MaxConcCalls

NextConc ==
  \/ \E p \in Procs : /\ Call(p)
                       /\ op'[p] \in { "install_or_update", "check_installation" }
                       /\ env'[p] = NoEnv
  \/ \E p \in Procs : get_binary_path(p)
  \/ \E p \in Procs : download_binary(p) /\ failedAt'[p] = "none"
  \/ \E p \in Procs : get_latest_release_info(p) /\ listing'[p] = << ConcListing >>
  \/ \E p \in Procs : select_asset(p)
  \/ \E p \in Procs : check_version(p)
  \/ \E p \in Procs : download_archive(p) /\ served'[p] = << ConcArchive >>
  \/ \E p \in Procs : /\ extract_binary(p)
                       /\ \/ failedAt'[p] = "none"
                          \/ archives[version(p)] = << >>
                          \/ ~archives[version(p)][1].whole
  \/ \E p \in Procs : make_executable(p) /\ (failedAt'[p] = "none" \/ binary = << >>)
  \/ \E p \in Procs : /\ clean_up_archive(p)
                       /\ (failedAt'[p] = "none" \/ archives[version(p)] = << >>)
  \/ \E p \in Procs : save_version(p) /\ failedAt'[p] = "none"
  \/ \E p \in Procs : fall_back(p)
  \/ \E p \in Procs : Return(p)
  \/ \E p \in Procs : Ack(p)

SpecConc == InitConc /\ [][NextConc]_vars

\* ------------------------------------------------------- properties
Done(p) == pc[p] = "done"
Failed(p) == failedAt[p] # "none"
EmptyStorage(snap) ==
  /\ snap.binary = << >>
  /\ snap.marker = << >>
  /\ \A v \in Versions : snap.archives[v] = << >>
\* a complete install: the binary whole and executable, the marker its version
Installed(snap) ==
  /\ snap.binary # << >>
  /\ snap.binary[1].whole
  /\ snap.binary[1].exec
  /\ snap.marker = << snap.binary[1].ver >>
\* strategies 1-3 find nothing on the machine the call looked at
AllLocalMiss(e) ==
  /\ ~(e.custom.path # "" /\ e.custom.kind \in { "noexec", "exec" })
  /\ e.which = None
  /\ \A i \in 1..Len(e.common) : e.common[i] # "exec"
\* the release has the asset named for version x and platform tag t
HasExactAsset(r, x, t) ==
  \E i \in 1..Len(r.assets) :
    r.assets[i].name = << "fleet-schema-gen", "-" >> \o x \o << "-", t, ".tar.gz" >>
ShipsBinary(r) ==
  \E i \in 1..Len(r.assets) : Head(r.assets[i].name) = "fleet-schema-gen"

\* C1: an install attempt that fails before the marker is written leaves in
\* the storage directory no binary or the prior binary, never the new one
\* without its marker, and returns nothing else.
C1_NoHalfInstalledBinary ==
  \A p \in Procs :
    Done(p) /\ Failed(p) =>
      /\ binary = << >> \/ binary = pre[p].binary
      /\ ret[p] = BINARY_PATH => binary = pre[p].binary

\* C2: installing a release whose platform asset exists, with the binary
\* present and the marker equal to the release's version, requests no archive,
\* leaves the storage directory as it was and returns the binary path.
C2_InstallIdempotent ==
  \A p \in Procs :
    ( /\ Done(p)
      /\ release[p] # << >>
      /\ HasExactAsset(release[p][1], version(p), get_platform_suffix(host))
      /\ pre[p].binary # << >>
      /\ pre[p].marker = << version(p) >> )
    => /\ archReq[p] = 0
       /\ binary = pre[p].binary
       /\ marker = pre[p].marker
       /\ archives = pre[p].archives
       /\ ret[p] = BINARY_PATH

C2_Witness ==
  \E p \in Procs :
    /\ Done(p)
    /\ release[p] # << >>
    /\ HasExactAsset(release[p][1], version(p), get_platform_suffix(host))
    /\ pre[p].binary # << >>
    /\ pre[p].marker = << version(p) >>
    /\ release[p][1].tag_name # version(p)
    /\ listReq[p] = 1
    /\ ret[p] = BINARY_PATH

\* C3: when a step of the install raises, download_binary returns the binary
\* path exactly when a binary existed before the attempt, nothing otherwise.
C3_FallbackIffPriorBinary ==
  \A p \in Procs :
    Done(p) /\ Failed(p) =>
      ret[p] = IF pre[p].binary # << >> THEN BINARY_PATH ELSE None

\* C4: install_or_update returns normally only with the selected release
\* installed; every failure of the download raises.
C4_InstallOrUpdateRaises ==
  \A p \in Procs :
    Done(p) /\ op[p] = "install_or_update" /\ outcome[p].kind = "returned" =>
      /\ release[p] # << >>
      /\ ~Failed(p)
      /\ binary = << [ver |-> version(p), whole |-> TRUE, exec |-> TRUE] >>
      /\ marker = << version(p) >>

\* C5: get_binary_path returns the configured path whenever a regular file is
\* there, then the search-path hit, then the first executable well-known file,
\* whatever the later strategies and the storage directory hold.
C5_ConfiguredPathFirst ==
  \A p \in Procs :
    Done(p) /\ op[p] \in ViaGetBinaryPath =>
      LET e == env[p]
          configured == e.custom.path # "" /\ e.custom.kind \in { "noexec", "exec" }
      IN /\ configured => ret[p] = e.custom.path
         /\ ~configured /\ e.which # None => ret[p] = e.which
         /\ ~configured /\ e.which = None /\ ~AllLocalMiss(e) =>
              \E i \in 1..Len(common_paths) :
                /\ ret[p] = common_paths[i]
                /\ e.common[i] = "exec"
                /\ \A j \in 1..(i - 1) : e.common[j] # "exec"

C5_Witness ==
  \E p \in Procs :
    /\ Done(p)
    /\ op[p] \in ViaGetBinaryPath
    /\ env[p].custom.kind = "noexec"
    /\ env[p].which # None
    /\ env[p].common[3] = "exec"
    /\ binary # << >>
    /\ ret[p] = CUSTOM_PATH

\* C6: a call through get_binary_path issues a request or changes the
\* storage directory only if strategies 1-3 all found nothing.
C6_NetworkOnlyAfterLocalMiss ==
  \A p \in Procs :
    ( /\ pc[p] # "idle"
      /\ op[p] \in ViaGetBinaryPath
      /\ \/ listReq[p] > 0
         \/ archReq[p] > 0
         \/ Snapshot # pre[p] )
    => AllLocalMiss(env[p])

C6_Witness ==
  \E p \in Procs :
    /\ Done(p)
    /\ op[p] \in ViaGetBinaryPath
    /\ ~AllLocalMiss(env[p])
    /\ env[p].custom.path = ""
    /\ env[p].which = None
    /\ binary # << >>
    /\ marker # << >>
    /\ listReq[p] = 0
    /\ archReq[p] = 0
    /\ Snapshot = pre[p]

\* C7: from an empty storage directory and no local binary, with the selected
\* release tagged vX, its asset fleet-schema-gen-X-P.tar.gz holding a member
\* fleet-schema-gen and no step failing, get_binary_path returns the storage
\* binary path, the binary is there and executable and the marker is X.
FreshInstall(p) ==
  /\ Done(p)
  /\ op[p] \in ViaGetBinaryPath
  /\ AllLocalMiss(env[p])
  /\ EmptyStorage(pre[p])
  /\ host = [system |-> "Linux", machine |-> "x86_64"]
  /\ release[p] # << >>
  /\ Head(release[p][1].tag_name) = "v"
  /\ HasExactAsset(release[p][1], Tail(release[p][1].tag_name), "linux-x64")
  /\ ~Failed(p)
ServedBinary(p) ==
  \E k \in 1..Len(served[p][1]) : served[p][1][k].name = << "fleet-schema-gen" >>

C7_FreshInstall ==
  \A p \in Procs :
    FreshInstall(p) =>
      LET X == Tail(release[p][1].tag_name)
      IN /\ archReq[p] = 1
         /\ served[p] # << >>
         /\ ServedBinary(p) =>
              /\ ret[p] = BINARY_PATH
              /\ binary = << [ver |-> X, whole |-> TRUE, exec |-> TRUE] >>
              /\ marker = << X >>

C7_Witness ==
  \E p \in Procs :
    FreshInstall(p) /\ ServedBinary(p) /\ marker = << << "1" >> >> /\ binary # << >>

\* C8: get_latest_release_info returns the first release of the listing, in
\* the order received, with an asset whose name starts with the binary name,
\* and nothing when there is none or the request failed.
C8_FirstReleaseWithAsset ==
  \A p \in Procs :
    pc[p] = "select_asset" =>
      IF listing[p] = << >> THEN release[p] = << >>
      ELSE LET L == listing[p][1]
           IN \/ /\ release[p] = << >>
                 /\ \A i \in 1..Len(L) : ~ShipsBinary(L[i])
              \/ \E i \in 1..Len(L) :
                   /\ release[p] = << L[i] >>
                   /\ ShipsBinary(L[i])
                   /\ \A j \in 1..(i - 1) : ~ShipsBinary(L[j])

C8_Witness ==
  \E p \in Procs :
    /\ pc[p] = "select_asset"
    /\ listing[p] # << >>
    /\ Len(listing[p][1]) = 2
    /\ ~ShipsBinary(listing[p][1][1])
    /\ ShipsBinary(listing[p][1][2])
    /\ release[p] = << listing[p][1][2] >>

\* C9: when the selected release has no asset for its version and this
\* platform, the remote install falls back to a binary already in the storage
\* directory and returns nothing only when there is none.
C9_AssetMismatchFallsBack ==
  \A p \in Procs :
    ( /\ Done(p)
      /\ release[p] # << >>
      /\ ~HasExactAsset(release[p][1], version(p), get_platform_suffix(host)) )
    => /\ Installed(pre[p]) => ret[p] = BINARY_PATH
       /\ pre[p].binary = << >> => ret[p] = None

\* C10: when the archive download fails during an update, the binary and the
\* marker are as they were before the attempt and the binary path is returned.
C10_DownloadFailureKeepsInstall ==
  \A p \in Procs :
    Done(p) /\ failedAt[p] = "download" /\ pre[p].binary # << >> =>
      /\ binary = pre[p].binary
      /\ marker = pre[p].marker
      /\ ret[p] = BINARY_PATH

C10_Witness ==
  \E p \in Procs :
    /\ Done(p)
    /\ failedAt[p] = "download"
    /\ pre[p].binary # << >>
    /\ pre[p].marker # << >>
    /\ pre[p].marker # << version(p) >>
    /\ archives[version(p)] # << >>
    /\ ret[p] = BINARY_PATH

\* the call went through download_binary: install_or_update calls it
\* directly, the others after strategies 1-3 found nothing
ReachedDownload(p) == op[p] = "install_or_update" \/ AllLocalMiss(env[p])
NoStorageChange(p) ==
  /\ binary = pre[p].binary
  /\ marker = pre[p].marker
  /\ archives = pre[p].archives

\* C11: on a machine whose system and architecture are outside the platform
\* table, download_binary returns nothing without raising, issues no request
\* for the listing or for an archive, and leaves the storage directory as it
\* was.
C11_UnsupportedPlatformNoRemote ==
  \A p \in Procs :
    ( /\ Done(p)
      /\ ReachedDownload(p)
      /\ host = [system |-> "FreeBSD", machine |-> "amd64"] )
    => /\ ret[p] = None
       /\ ~Failed(p)
       /\ listReq[p] = 0
       /\ archReq[p] = 0
       /\ NoStorageChange(p)

C11_Witness ==
  \E p \in Procs :
    /\ Done(p)
    /\ op[p] = "install_or_update"
    /\ host = [system |-> "FreeBSD", machine |-> "amd64"]
    /\ platform_suffix[p] = None
    /\ ret[p] = None
    /\ listReq[p] = 0

\* C12: server_version ends by returning a string whatever binary resolution
\* and the probe did, never with an exception: the last whitespace-separated
\* token of the probe's output when a path was resolved and the probe exited
\* with code 0 and printed something, and "unknown" in every other case.
C12_ServerVersionNeverRaises ==
  \A p \in Procs :
    Done(p) /\ op[p] = "server_version" =>
      /\ outcome[p].kind = "returned"
      /\ IF /\ ret[p] # None
            /\ probe[p] # << >>
            /\ probe[p][1].status = "exit0"
            /\ probe[p][1].stdout # << >>
         THEN outcome[p].value = probe[p][1].stdout[Len(probe[p][1].stdout)]
         ELSE outcome[p].value = << "unknown" >>
      /\ ret[p] = None => probe[p] = << >>

\* the spellings of a lower-case name among the reported names
Spellings(name) ==
  CASE name = "darwin" -> { "darwin", "Darwin" }
    [] name = "linux" -> { "linux", "Linux", "LINUX" }
    [] name = "windows" -> { "windows", "Windows" }
    [] name = "arm64" -> { "arm64", "ARM64" }
    [] name = "x86_64" -> { "x86_64", "X86_64" }
    [] name = "amd64" -> { "amd64", "AMD64" }
    [] OTHER -> { name }
\* the mapping table: system, the machines it lists (any when empty), the tag
PlatformTable ==
  { << "darwin", { "arm64", "aarch64" }, "darwin-arm64" >>,
    << "darwin", { "x86_64", "amd64" }, "darwin-x64" >>,
    << "linux", { "x86_64", "amd64" }, "linux-x64" >>,
    << "linux", { "aarch64", "arm64" }, "linux-arm64" >>,
    << "windows", { }, "windows-x64" >> }
RowOf(row, h) ==
  /\ h.system \in Spellings(row[1])
  /\ row[2] = { } \/ \E m \in row[2] : h.machine \in Spellings(m)

\* C13: the platform tag download_binary gets is the tag of the table row that
\* lists the machine's system and architecture, whatever their letter case,
\* and the unsupported value when no row lists them.
C13_PlatformTable ==
  \A p \in Procs :
    platform_suffix[p] # "" =>
      /\ \A row \in PlatformTable : RowOf(row, host) => platform_suffix[p] = row[3]
      /\ (\A row \in PlatformTable : ~RowOf(row, host)) => platform_suffix[p] = None

C13_Witness ==
  \E p \in Procs :
    /\ host = [system |-> "LINUX", machine |-> "ARM64"]
    /\ platform_suffix[p] = "linux-arm64"
    /\ pc[p] = "get_latest_release_info"

\* C14: the marker is what an attempt writes last. While a call is under way
\* the marker differs from what it was when the call started only once that
\* call has downloaded its archive, extracted, made the binary executable
\* and removed the archive; an attempt stopped or failed at any of those
\* steps leaves the marker as it was, and a completed one leaves the version
\* of its release.
C14_MarkerWrittenLast ==
  \A p \in Procs :
    pc[p] # "idle" =>
      /\ marker # pre[p].marker =>
            /\ archReq[p] = 1
            /\ served[p] # << >>
            /\ pc[p] \in { "fall_back", "return", "done" }
            /\ failedAt[p] \in { "none", "marker" }
            /\ binary # << >>
            /\ binary[1].exec
            /\ archives[version(p)] = << >>
            /\ failedAt[p] = "none" => marker = << version(p) >>
      /\ failedAt[p] \in { "download", "extract", "chmod", "unlink" } =>
            marker = pre[p].marker
      /\ pc[p] \in { "download_archive", "extract_binary", "make_executable",
                      "clean_up_archive", "save_version" } =>
            marker = pre[p].marker

C14_Witness ==
  \E p \in Procs :
    /\ Done(p)
    /\ failedAt[p] = "unlink"
    /\ pre[p].marker # << >>
    /\ marker = pre[p].marker
    /\ binary # << >>
    /\ binary[1].ver = version(p)
    /\ marker # << version(p) >>

\* the archive this call downloaded has no member that is the binary
ServedWithoutBinary(p) ==
  /\ served[p] # << >>
  /\ \A k \in 1..Len(served[p][1]) :
       LET name == served[p][1][k].name
       IN /\ name # << "fleet-schema-gen" >>
          /\ ~(Len(name) >= 2 /\ name[Len(name)] = "fleet-schema-gen"
                /\ name[Len(name) - 1] = "/")

\* C15: an attempt whose archive holds no member for the binary installs
\* nothing and is not recorded as an install: the binary is as it was and the
\* marker is not set to the release's version, whether the storage directory
\* was empty or held an older binary.
C15_NoMemberNotRecorded ==
  \A p \in Procs :
    ( /\ Done(p)
      /\ ServedWithoutBinary(p)
      /\ \/ EmptyStorage(pre[p])
         \/ Installed(pre[p]) /\ pre[p].binary[1].ver # version(p) )
    => /\ binary = pre[p].binary
       /\ marker # << version(p) >>

\* C16: when a call has returned, whatever step it reached or failed at, the
\* storage directory holds no archive file.
C16_NoArchiveLeft ==
  \A p \in Procs : Done(p) => \A v \in Versions : archives[v] = << >>

\* C18: on a supported platform, when some release of the listing carries
\* the asset named for its own version and the machine's platform tag, the
\* release download_binary goes on with carries such an asset too, so the
\* call does not end at "no matching asset"; a newer release that ships the
\* binary for other platforms only does not stand in the way.
C18_SelectedReleaseInstallable ==
  \A p \in Procs :
    ( /\ pc[p] = "select_asset"
      /\ host = [system |-> "Linux", machine |-> "x86_64"]
      /\ listing[p] # << >>
      /\ \E i \in 1..Len(listing[p][1]) :
           LET r == listing[p][1][i]
           IN HasExactAsset(r, lstrip(r.tag_name, { "v" }), "linux-x64") )
    => /\ release[p] # << >>
       /\ HasExactAsset(release[p][1], lstrip(release[p][1].tag_name, { "v" }),
                        "linux-x64")
       /\ asset_url(p) # << >>

\* C17: when failed attempts have left an archive behind, a later attempt for
\* a release whose steps all succeed and whose archive holds the binary does
\* not stop at the version check unless that release was completely
\* installed before: it downloads, and ends with that release's binary whole
\* and executable and the marker equal to its version.
C17_RecoversAfterFailure ==
  \A p \in Procs :
    ( /\ Done(p)
      /\ ReachedDownload(p)
      /\ release[p] # << >>
      /\ asset_url(p) # << >>
      /\ \E v \in Versions : pre[p].archives[v] # << >>
      /\ ~Failed(p)
      /\ ~ServedWithoutBinary(p) )
    => /\ \/ archReq[p] = 1
          \/ Installed(pre[p]) /\ pre[p].binary[1].ver = version(p)
       /\ binary = << [ver |-> version(p), whole |-> TRUE, exec |-> TRUE] >>
       /\ marker = << version(p) >>

\* C19: with two callers in download_binary at once, a caller that finds
\* the binary present and the marker equal to the release's version, and is
\* given the binary's path without downloading, is given a binary that is
\* whole and executable; and when both calls have ended without a failed
\* step the storage directory holds the binary, the marker equal to the
\* release's version, and no archive.
C19_ConcurrentCallers ==
  /\ \A p \in Procs :
       ( /\ pc[p] \in { "return", "done" }
         /\ release[p] # << >>
         /\ asset_url(p) # << >>
         /\ archReq[p] = 0
         /\ ret[p] = BINARY_PATH )
       => /\ binary # << >>
          /\ binary[1].whole
          /\ binary[1].exec
  /\ (\A p \in Procs : Done(p) /\ ~Failed(p) /\ release[p] # << >>)
     => /\ binary = << [ver |-> << "1" >>, whole |-> TRUE, exec |-> TRUE] >>
        /\ marker = << << "1" >> >>
        /\ \A v \in Versions : archives[v] = << >>

====
